---- MODULE Spec2Model ----
(***************************************************************************)
(* Saino Forge build engine (src/server.js): sandboxed path resolution,    *)
(* data-source merging, template loading with cache invalidation, render   *)
(* and minify, output placement, and batch orchestration.                  *)
(*                                                                         *)
(* Paths, file names and markup are TLA+ strings handled character by      *)
(* character (Len, SubSeq, \o), so that startsWith, endsWith, replace and  *)
(* the node path functions are computed as the code computes them.         *)
(***************************************************************************)
EXTENDS Integers, Sequences, FiniteSets, TLC

(***************************************************************************)
(* Bounds of the model.                                                    *)
(***************************************************************************)
\* longest path input, in segments, drawn for resolveSafePath
MaxSegs == 3
\* most data sources folded in one merge
MaxSources == 2

VARIABLES
    sandbox,    \* the last resolveSafePath call: its arguments and its outcome
    merged,     \* the last fold of data sources: the contents and the properties
    fs,         \* the file system: absolute path -> content (Dir for a directory)
    cache,      \* require.cache: absolute path -> the module loaded from it
    proc        \* per request slot: the handler's position, locals and response

pureVars == <<sandbox, merged>>
sysVars == <<fs, cache, proc>>
vars == <<sandbox, merged, fs, cache, proc>>

(***************************************************************************)
(* JavaScript values that may be missing: a request field is either a      *)
(* string s, modelled <<s>>, or undefined (or any non-string), <<>>.       *)
(***************************************************************************)
Undefined == <<>>
Str(s) == <<s>>
IsString(m) == m # Undefined
Val(m) == m[1]

\* outcome of a call that may throw
Ok(v) == [ok |-> TRUE, v |-> v]
Throw(msg) == [ok |-> FALSE, v |-> msg]

(***************************************************************************)
(* String.prototype.startsWith / endsWith / replace(string, string)        *)
(***************************************************************************)
startsWith(s, p) == Len(p) <= Len(s) /\ SubSeq(s, 1, Len(p)) = p

endsWith(s, p) == Len(p) <= Len(s) /\ SubSeq(s, Len(s) - Len(p) + 1, Len(s)) = p

\* 1-based index of the first occurrence of p in s, 0 when there is none
indexOf(s, p) ==
    LET I == {i \in 1..(Len(s) - Len(p) + 1) : SubSeq(s, i, i + Len(p) - 1) = p}
    IN  IF I = {} THEN 0 ELSE CHOOSE i \in I : \A j \in I : i <= j

\* str.replace(p, r) with a string pattern: only the first occurrence
replace(s, p, r) ==
    LET i == indexOf(s, p)
    IN  IF i = 0 THEN s
        ELSE SubSeq(s, 1, i - 1) \o r \o SubSeq(s, i + Len(p), Len(s))

(***************************************************************************)
(* node's posix path module: normalizeString, resolve, join, dirname       *)
(***************************************************************************)
RECURSIVE splitAcc(_, _, _, _)
splitAcc(s, i, cur, acc) ==
    IF i > Len(s) THEN Append(acc, cur)
    ELSE IF SubSeq(s, i, i) = "/" THEN splitAcc(s, i + 1, "", Append(acc, cur))
    ELSE splitAcc(s, i + 1, cur \o SubSeq(s, i, i), acc)

\* the segments of s between its "/" separators (empty segments included)
Split(s) == splitAcc(s, 1, "", <<>>)

RECURSIVE JoinSegs(_)
JoinSegs(segs) ==
    IF segs = <<>> THEN ""
    ELSE IF Len(segs) = 1 THEN segs[1]
    ELSE segs[1] \o "/" \o JoinSegs(Tail(segs))

RECURSIVE normAcc(_, _, _)
normAcc(segs, allowAboveRoot, res) ==
    IF segs = <<>> THEN res
    ELSE LET h == Head(segs)
             t == Tail(segs)
         IN  IF h = "" \/ h = "." THEN normAcc(t, allowAboveRoot, res)
             ELSE IF h = ".."
                  THEN IF res # <<>> /\ res[Len(res)] # ".."
                       THEN normAcc(t, allowAboveRoot, SubSeq(res, 1, Len(res) - 1))
                       ELSE IF allowAboveRoot
                            THEN normAcc(t, allowAboveRoot, Append(res, ".."))
                            ELSE normAcc(t, allowAboveRoot, res)
                  ELSE normAcc(t, allowAboveRoot, Append(res, h))

\* resolves "." and ".." segments and drops empty ones
normalizeString(p, allowAboveRoot) == JoinSegs(normAcc(Split(p), allowAboveRoot, <<>>))

\* path.resolve(base, input) for an absolute base and a string input
pathResolve(base, input) ==
    LET joined == IF input = "" THEN base
                  ELSE IF startsWith(input, "/") THEN input
                  ELSE base \o "/" \o input
    IN  "/" \o normalizeString(joined, FALSE)

\* path.normalize(p)
pathNormalize(p) ==
    IF p = "" THEN "."
    ELSE LET isAbsolute == startsWith(p, "/")
             trailing   == endsWith(p, "/")
             n          == normalizeString(p, ~isAbsolute)
         IN  IF n = "" THEN (IF isAbsolute THEN "/" ELSE IF trailing THEN "./" ELSE ".")
             ELSE (IF isAbsolute THEN "/" ELSE "") \o n \o (IF trailing THEN "/" ELSE "")

\* path.join(a, b) for two strings: zero-length arguments are left out
pathJoin(a, b) ==
    IF a = "" /\ b = "" THEN "."
    ELSE IF a = "" THEN pathNormalize(b)
    ELSE IF b = "" THEN pathNormalize(a)
    ELSE pathNormalize(a \o "/" \o b)

\* path.dirname(p) of an absolute, resolved path
pathDirname(p) ==
    LET segs == normAcc(Split(p), FALSE, <<>>)
    IN  IF Len(segs) <= 1 THEN "/"
        ELSE "/" \o JoinSegs(SubSeq(segs, 1, Len(segs) - 1))

(***************************************************************************)
(* STORAGE and resolveSafePath                                             *)
(***************************************************************************)
\* __dirname: the Dockerfile's WORKDIR
Dirname == "/app"

STORAGE == [templates |-> Dirname \o "/storage/templates",
            data      |-> Dirname \o "/storage/data",
            output    |-> Dirname \o "/storage/output",
            config    |-> Dirname \o "/storage/config"]

SecurityViolation == "Security Violation: Access Denied"
TypeError == "TypeError"

\* the containment test of resolveSafePath: a bare string-prefix test
Contained(resolvedPath, safeBase) == startsWith(resolvedPath, safeBase)

\* resolveSafePath(baseDir, userInput); userInput may be undefined
resolveSafePath(baseDir, userInput) ==
    IF ~IsString(userInput) THEN Throw(TypeError)
    ELSE LET safeBase     == pathResolve(baseDir, "")
             resolvedPath == pathResolve(safeBase, Val(userInput))
         IN  IF ~Contained(resolvedPath, safeBase) THEN Throw(SecurityViolation)
             ELSE Ok(resolvedPath)

(***************************************************************************)
(* Parsed JSON values: records of one shape, told apart by the tag t.      *)
(***************************************************************************)
NoProps == [k \in {} |-> 0]
JNull == [t |-> "null", n |-> 0, s |-> "", e |-> <<>>, p |-> NoProps]
JNum(n) == [t |-> "num", n |-> n, s |-> "", e |-> <<>>, p |-> NoProps]
JStr(s) == [t |-> "str", n |-> 0, s |-> s, e |-> <<>>, p |-> NoProps]
\* an array: its elements e, and the named properties p assigned to it
JArr(elems) == [t |-> "arr", n |-> 0, s |-> "", e |-> elems, p |-> NoProps]
\* a plain object: its properties p, a function from keys to values
JObj(f) == [t |-> "obj", n |-> 0, s |-> "", e |-> <<>>, p |-> f]
EmptyObj == JObj(NoProps)
EmptyArr == JArr(<<>>)

IsObjectLike(x) == x.t \in {"arr", "obj"}

Max(a, b) == IF a >= b THEN a ELSE b

(***************************************************************************)
(* lodash.merge(object, source): baseMerge / baseMergeDeep.  A source      *)
(* array or plain object is merged recursively into the destination value  *)
(* (an array into an array index by index, into anything else as a fresh   *)
(* array; a plain object into an existing object or array key by key, into *)
(* anything else as a fresh object); every other source value is assigned. *)
(***************************************************************************)
RECURSIVE mergeValue(_, _)
RECURSIVE mergeProps(_, _)

\* key-wise merge of the string-keyed properties src into the properties dst
mergeProps(dst, src) ==
    [k \in (DOMAIN dst) \cup (DOMAIN src) |->
        IF k \notin DOMAIN src THEN dst[k]
        ELSE mergeValue(IF k \in DOMAIN dst THEN <<dst[k]>> ELSE <<>>, src[k])]

\* the value assigned to a key holding objValue (<<>> when absent) for srcValue
mergeValue(objValue, srcValue) ==
    IF srcValue.t = "arr"
    THEN LET dst == IF objValue # <<>> /\ objValue[1].t = "arr" THEN objValue[1] ELSE EmptyArr
             n   == Max(Len(dst.e), Len(srcValue.e))
         IN  [dst EXCEPT
                !.e = [i \in 1..n |->
                         IF i > Len(srcValue.e) THEN dst.e[i]
                         ELSE mergeValue(IF i <= Len(dst.e) THEN <<dst.e[i]>> ELSE <<>>,
                                         srcValue.e[i])],
                !.p = mergeProps(dst.p, srcValue.p)]
    ELSE IF srcValue.t = "obj"
    THEN LET dst == IF objValue # <<>> /\ IsObjectLike(objValue[1]) THEN objValue[1] ELSE EmptyObj
         IN  [dst EXCEPT !.p = mergeProps(dst.p, srcValue.p)]
    ELSE srcValue

\* the property key of the index i of a string or an array (i < 10)
IndexKey(i) == SubSeq("0123456789", i + 1, i + 1)

\* the enumerable keys (keysIn) of a source and their values: the properties
\* of an object, the indices and properties of an array, the indices of a
\* string; null and numbers have none
sourceProps(content) ==
    LET n   == IF content.t = "str" THEN Len(content.s) ELSE Len(content.e)
        at(k) == CHOOSE i \in 0..(n - 1) : IndexKey(i) = k
    IN  [k \in {IndexKey(i) : i \in 0..(n - 1)} \cup DOMAIN content.p |->
            IF k \in DOMAIN content.p THEN content.p[k]
            ELSE IF content.t = "str" THEN JStr(SubSeq(content.s, at(k) + 1, at(k) + 1))
            ELSE content.e[at(k) + 1]]

\* merge(finalProps, content) for a plain-object finalProps: every enumerable
\* key of content is merged into finalProps; a null or number content has no
\* such key and leaves finalProps as it is
merge(finalProps, content) == JObj(mergeProps(finalProps.p, sourceProps(content)))

\* the loop of performBuild over already parsed contents, none with a key
RECURSIVE foldMerge(_, _)
foldMerge(finalProps, contents) ==
    IF contents = <<>> THEN finalProps
    ELSE foldMerge(merge(finalProps, Head(contents)), Tail(contents))

(***************************************************************************)
(* Specification SpecPath: resolveSafePath applied to bounded inputs.      *)
(***************************************************************************)
PathSegments == {"..", ".", "sub", "data-other", "templates"}

RECURSIVE SegSeqs(_)
SegSeqs(n) ==
    IF n = 0 THEN {<<>>}
    ELSE LET S == SegSeqs(n - 1)
         IN  S \cup {Append(s, x) : s \in {q \in S : Len(q) = n - 1}, x \in PathSegments}

\* relative and absolute caller inputs of at most MaxSegs segments
PathInputs == {JoinSegs(s) : s \in SegSeqs(MaxSegs)}
              \cup {"/" \o JoinSegs(s) : s \in SegSeqs(MaxSegs)}
              \cup {STORAGE.data \o "/" \o JoinSegs(s) : s \in SegSeqs(1)}

SandboxRoots == {STORAGE.templates, STORAGE.data, STORAGE.output}

InitPure ==
    /\ sandbox = [st |-> "idle", base |-> "", input |-> Undefined, res |-> Throw("")]
    /\ merged = [st |-> "idle", contents |-> <<>>, props |-> EmptyObj]

ResolveCall ==
    /\ sandbox.st = "idle"
    /\ \E base \in SandboxRoots, input \in {Str(s) : s \in PathInputs} \cup {Undefined} :
        /\ sandbox' = [st |-> "done", base |-> base, input |-> input,
                       res |-> resolveSafePath(base, input)]
        /\ UNCHANGED <<merged, sysVars>>

(***************************************************************************)
(* Specification SpecMerge: the fold of data sources applied to bounded    *)
(* sequences of parsed JSON documents.                                     *)
(***************************************************************************)
MergeScalars == {JNum(1), JNum(2)}
MergeArrays == {JArr(<<JNum(1), JNum(2)>>), JArr(<<JNum(3)>>)}
MergeInner == {JObj([k \in S |-> f[k]]) : f \in [{"x", "y"} -> MergeScalars],
                                          S \in SUBSET {"x", "y"}}
MergeValues == MergeScalars \cup MergeArrays \cup MergeInner
\* documents {} and {a: v}
MergeDocs == {EmptyObj} \cup {JObj([k \in {"a"} |-> v]) : v \in MergeValues}

RECURSIVE DocSeqs(_)
DocSeqs(n) ==
    IF n = 0 THEN {<<>>}
    ELSE LET S == DocSeqs(n - 1)
         IN  S \cup {Append(s, d) : s \in {q \in S : Len(q) = n - 1}, d \in MergeDocs}

MergeCall ==
    /\ merged.st = "idle"
    /\ \E contents \in DocSeqs(MaxSources) :
        /\ merged' = [st |-> "done", contents |-> contents,
                      props |-> foldMerge(EmptyObj, contents)]
        /\ UNCHANGED <<sandbox, sysVars>>

(***************************************************************************)
(* The file system (fs-extra), as far as the engine uses it.               *)
(***************************************************************************)
Dir == "<dir>"

exists(fsys, path) == path \in DOMAIN fsys
isDir(fsys, path) == exists(fsys, path) /\ fsys[path] = Dir
isFile(fsys, path) == exists(fsys, path) /\ fsys[path] # Dir

\* the path and every directory above it
RECURSIVE SelfAndAncestors(_)
SelfAndAncestors(path) ==
    IF path = "/" THEN {"/"} ELSE {path} \cup SelfAndAncestors(pathDirname(path))

FsOk(fsys) == [ok |-> TRUE, fs |-> fsys, err |-> ""]
FsErr(fsys, msg) == [ok |-> FALSE, fs |-> fsys, err |-> msg]

\* fs.ensureDir(dir): creates dir and its missing parents
ensureDir(fsys, dir) ==
    LET chain == SelfAndAncestors(dir)
    IN  IF \E a \in chain : isFile(fsys, a) THEN FsErr(fsys, "ENOTDIR")
        ELSE FsOk([q \in (DOMAIN fsys) \cup chain |->
                      IF q \in DOMAIN fsys THEN fsys[q] ELSE Dir])

\* fs.writeFile(path, data): creates or overwrites the file
writeFile(fsys, path, data) ==
    IF ~exists(fsys, pathDirname(path)) THEN FsErr(fsys, "ENOENT")
    ELSE IF ~isDir(fsys, pathDirname(path)) THEN FsErr(fsys, "ENOTDIR")
    ELSE IF isDir(fsys, path) THEN FsErr(fsys, "EISDIR")
    ELSE FsOk([q \in (DOMAIN fsys) \cup {path} |-> IF q = path THEN data ELSE fsys[q]])

\* fs.remove(path): the file, or the directory and everything below it
remove(fsys, path) ==
    [q \in {x \in DOMAIN fsys : x # path /\ ~startsWith(x, path \o "/")} |-> fsys[q]]

\* the last segment of a resolved path
basename(path) ==
    LET segs == normAcc(Split(path), FALSE, <<>>)
    IN  IF segs = <<>> THEN "" ELSE segs[Len(segs)]

\* the names fs.readdir(dir) lists: the immediate entries of dir
entries(fsys, dir) ==
    {basename(q) : q \in {x \in DOMAIN fsys : x # dir /\ pathDirname(x) = dir}}

\* the orders a directory listing may come in
Listings(names) ==
    {l \in [1..Cardinality(names) -> names] : \A i, j \in DOMAIN l : i # j => l[i] # l[j]}

(***************************************************************************)
(* The documents data files hold, and fs.readJson                          *)
(***************************************************************************)
DocHi == "{title:Hi}"
DocYo == "{title:Yo}"
DocPage == "{page:{title:Pg}}"
DocEmpty == "{}"
DocMalformed == "{title:"

Key1(k, v) == JObj([x \in {k} |-> v])

JsonOk(val) == [ok |-> TRUE, val |-> val, err |-> ""]
JsonErr(msg) == [ok |-> FALSE, val |-> JNull, err |-> msg]

\* JSON.parse of a file's text
parseJson(text) ==
    CASE text = DocHi   -> JsonOk(Key1("title", JStr("Hi")))
      [] text = DocYo   -> JsonOk(Key1("title", JStr("Yo")))
      [] text = DocPage -> JsonOk(Key1("page", Key1("title", JStr("Pg"))))
      [] text = DocEmpty -> JsonOk(EmptyObj)
      [] OTHER          -> JsonErr("SyntaxError")

\* fs.readJson(path)
readJson(fsys, path) ==
    IF ~exists(fsys, path) THEN JsonErr("ENOENT")
    ELSE IF isDir(fsys, path) THEN JsonErr("EISDIR")
    ELSE parseJson(fsys[path])

(***************************************************************************)
(* Template modules: what require() yields for a file's text, and the      *)
(* components they export.  A component is named by what it renders.       *)
(***************************************************************************)
TplV1 == "export default Div"
TplV2 == "export default Para"
TplBoth == "export default Div; export App = Para"
TplApp == "export App = Para"
TplFn == "module.exports = Div"
TplObj == "export Other = Div"
TplThrows == "throw at load"

NoExport == ""
\* the value of module.exports when it is the exports object, not a component
ExportsObject == "[object]"

ModOk(d, a, self) == [ok |-> TRUE, default |-> d, App |-> a, self |-> self]
ModErr == [ok |-> FALSE, default |-> NoExport, App |-> NoExport, self |-> NoExport]

\* compiling and running a module's text
loadModule(text) ==
    CASE text = TplV1     -> ModOk("Div", NoExport, ExportsObject)
      [] text = TplV2     -> ModOk("Para", NoExport, ExportsObject)
      [] text = TplBoth   -> ModOk("Div", "Para", ExportsObject)
      [] text = TplApp    -> ModOk(NoExport, "Para", ExportsObject)
      [] text = TplFn     -> ModOk(NoExport, NoExport, "Div")
      [] text = TplObj    -> ModOk(NoExport, NoExport, ExportsObject)
      [] OTHER            -> ModErr

ReqOk(text, c) == [ok |-> TRUE, module |-> text, cache |-> c, err |-> ""]
ReqErr(c, msg) == [ok |-> FALSE, module |-> "", cache |-> c, err |-> msg]

\* require(path): the cached module if there is one, else the file is loaded
\* and, unless loading throws, cached.  A module is named by the text it was
\* loaded from.
require(fsys, c, path) ==
    IF path \in DOMAIN c THEN ReqOk(c[path], c)
    ELSE IF ~isFile(fsys, path) THEN ReqErr(c, "MODULE_NOT_FOUND")
    ELSE IF ~loadModule(fsys[path]).ok THEN ReqErr(c, "TemplateLoadError")
    ELSE ReqOk(fsys[path],
               [q \in (DOMAIN c) \cup {path} |-> IF q = path THEN fsys[path] ELSE c[q]])

\* resolveExport, probing App before default
resolveExportAppFirst(module) ==
    LET Component == loadModule(module)
    IN  IF Component.App # NoExport THEN Component.App
        ELSE IF Component.default # NoExport THEN Component.default
        ELSE Component.self

\* Component.default || Component.App || Component
resolveExport(module) ==
    LET Component == loadModule(module)
    IN  IF Component.default # NoExport THEN Component.default
        ELSE IF Component.App # NoExport THEN Component.App
        ELSE Component.self

\* invalidate, testing the keys against the data root instead
invalidateDataRoot(c) ==
    [q \in {k \in DOMAIN c : ~startsWith(k, STORAGE.data)} |-> c[q]]

\* the Object.keys(require.cache).forEach(...) of performBuild
invalidate(c) ==
    [q \in {k \in DOMAIN c : ~startsWith(k, STORAGE.templates)} |-> c[q]]

(***************************************************************************)
(* ReactDOMServer.renderToStaticMarkup(React.createElement(App, props))    *)
(* and html-minifier's minify with collapseWhitespace.  The titles of the  *)
(* documents drawn are strings or absent.                                  *)
(***************************************************************************)
HtmlOk(html) == [ok |-> TRUE, html |-> html, err |-> ""]
HtmlErr(msg) == [ok |-> FALSE, html |-> "", err |-> msg]

HasTitle(props) == "title" \in DOMAIN props.p /\ props.p["title"].t = "str"
TitleOf(props) == IF HasTitle(props) THEN props.p["title"].s ELSE ""

renderToStaticMarkup(App, props) ==
    CASE App = "Div"    -> HtmlOk("<div>" \o TitleOf(props) \o "</div>")
      [] App = "Para"   -> HtmlOk("<p>  " \o TitleOf(props) \o "  </p>")
      [] OTHER          -> HtmlErr("Element type is invalid")

\* collapseWhitespace: a run of spaces next to a tag is dropped, any other
\* run becomes one space
RECURSIVE minifyAcc(_, _, _)
minifyAcc(s, i, out) ==
    IF i > Len(s) THEN out
    ELSE LET c == SubSeq(s, i, i)
         IN  IF c # " " THEN minifyAcc(s, i + 1, out \o c)
             ELSE LET rest == {j \in (i + 1)..Len(s) : SubSeq(s, j, j) # " "}
                      j    == IF rest = {} THEN Len(s) + 1
                              ELSE CHOOSE x \in rest : \A y \in rest : x <= y
                      atTag == \/ out = ""
                               \/ endsWith(out, ">")
                               \/ j > Len(s)
                               \/ SubSeq(s, j, j) = "<"
                  IN  minifyAcc(s, j, IF atTag THEN out ELSE out \o " ")

minify(html) == minifyAcc(html, 1, "")

\* normalizeOutput, without the test of the suffix
normalizeOutputAlways(outputRelPath) == pathJoin(outputRelPath, "index.html")

\* lines 158-159: a name not ending in .html is a directory target
normalizeOutput(outputRelPath) ==
    IF ~endsWith(outputRelPath, ".html") THEN pathJoin(outputRelPath, "index.html")
    ELSE outputRelPath

(***************************************************************************)
(* Requests.  A slot of proc holds one request from its arrival to its     *)
(* response: the handler's position pc, the request's fields, the locals   *)
(* of performBuild and of the batch loop, and the response sent; touched    *)
(* is history: the files written or deleted by other requests since this   *)
(* one arrived.                                                            *)
(***************************************************************************)
Procs == {"p1"}

NoFiles == [q \in {} |-> ""]
NoResp == [status |-> "none", path |-> "", results |-> <<>>, error |-> ""]

\* the locals of one performBuild call, before its first statement
NoBuild ==
    [templatePath |-> Undefined, dataSources |-> Undefined, outputRelPath |-> Undefined,
     i |-> 0, finalProps |-> EmptyObj, fullTemplatePath |-> "", Component |-> "",
     App |-> "", minified |-> "", finalPath |-> "", fullOutputPath |-> "", err |-> "",
     steps |-> <<>>, failedAt |-> "", prev |-> ""]

IdleProc ==
    [pc |-> "idle", kind |-> "none", b |-> NoBuild,
     dataFolder |-> Undefined, outputBase |-> Undefined, batchTemplate |-> Undefined,
     listed |-> FALSE, jsonFiles |-> <<>>, k |-> 0, results |-> <<>>, resp |-> NoResp,
     touched |-> {}]

\* a data source {filename, key}; either may be missing
Source(filename, key) == [filename |-> filename, key |-> key]

\* history: the module require.cache holds for the template when a build is called
CachedFor(templatePath) ==
    LET full == resolveSafePath(STORAGE.templates, templatePath)
    IN  IF full.ok /\ full.v \in DOMAIN cache THEN cache[full.v] ELSE ""

\* the call performBuild(templatePath, dataSources, outputRelPath)
CallBuild(templatePath, dataSources, outputRelPath) ==
    [NoBuild EXCEPT !.templatePath = templatePath, !.dataSources = dataSources,
                    !.outputRelPath = outputRelPath, !.prev = CachedFor(templatePath)]

\* a slot is free before its first request and after each response
Free(p) == proc[p].pc \in {"idle", "responded"}

SetProc(p, rec) == proc' = [proc EXCEPT ![p] = rec]

(***************************************************************************)
(* performBuild, lines 136-166.  Each step is an operator from the file    *)
(* system, the module cache and the build's locals to its outcome: whether *)
(* it returned or threw, what it changed, and the step that follows.       *)
(***************************************************************************)
Outcome(ok, err, b, fsys, c, next) ==
    [ok |-> ok, err |-> err, b |-> b, fs |-> fsys, cache |-> c, next |-> next]
Returns(b, fsys, c, next) == Outcome(TRUE, "", b, fsys, c, next)
\* a throw; next is the step the statement would have gone on to
Throws(msg, b, fsys, c, next) == Outcome(FALSE, msg, b, fsys, c, next)

\* invalidateStep, leaving the module cache as it is
invalidateStepKeep(fsys, c, b) == Returns([b EXCEPT !.i = 1], fsys, c, "data")

\* lines 138-140
invalidateStep(fsys, c, b) == Returns([b EXCEPT !.i = 1], fsys, invalidate(c), "data")

Falsy(m) == ~IsString(m) \/ Val(m) = ""
Truthy(x) == ~(x.t = "null" \/ (x.t = "num" /\ x.n = 0) \/ (x.t = "str" /\ x.s = ""))

PropsOk(props) == [ok |-> TRUE, props |-> props, err |-> ""]
PropsErr(msg) == [ok |-> FALSE, props |-> EmptyObj, err |-> msg]

\* one pass of the loop of lines 143-149 for the source src
dataSource(fsys, src, finalProps) ==
    IF Falsy(src.filename) THEN PropsOk(finalProps)
    ELSE LET fullDataPath == resolveSafePath(STORAGE.data, src.filename)
         IN  IF ~fullDataPath.ok THEN PropsErr(fullDataPath.v)
             ELSE LET content == readJson(fsys, fullDataPath.v)
                  IN  IF ~content.ok THEN PropsErr(content.err)
                      ELSE IF Falsy(src.key) THEN PropsOk(merge(finalProps, content.val))
                      ELSE IF content.val.t = "null" THEN PropsErr(TypeError)
                      ELSE IF /\ Val(src.key) \in DOMAIN content.val.p
                              /\ Truthy(content.val.p[Val(src.key)])
                           THEN PropsOk(merge(finalProps, content.val.p[Val(src.key)]))
                           ELSE PropsOk(merge(finalProps, EmptyObj))

\* lines 142-149: the next data source, or the end of the loop
dataStep(fsys, c, b) ==
    IF ~IsString(b.dataSources) THEN Throws(TypeError, b, fsys, c, "template")
    ELSE IF b.i > Len(Val(b.dataSources)) THEN Returns(b, fsys, c, "template")
    ELSE LET r == dataSource(fsys, Val(b.dataSources)[b.i], b.finalProps)
         IN  IF ~r.ok THEN Throws(r.err, b, fsys, c, "template")
             ELSE Returns([b EXCEPT !.i = @ + 1, !.finalProps = r.props], fsys, c, "data")

\* lines 151-153
templateStep(fsys, c, b) ==
    LET fullTemplatePath == resolveSafePath(STORAGE.templates, b.templatePath)
    IN  IF ~fullTemplatePath.ok THEN Throws(fullTemplatePath.v, b, fsys, c, "render")
        ELSE LET r == require(fsys, c, fullTemplatePath.v)
             IN  IF ~r.ok THEN Throws(r.err, b, fsys, r.cache, "render")
                 ELSE Returns([b EXCEPT !.fullTemplatePath = fullTemplatePath.v,
                                        !.Component = r.module,
                                        !.App = resolveExport(r.module)],
                              fsys, r.cache, "render")

\* renderStep, writing the markup as rendered
renderStepRaw(fsys, c, b) ==
    LET r == renderToStaticMarkup(b.App, b.finalProps)
    IN  IF ~r.ok THEN Throws(r.err, b, fsys, c, "write")
        ELSE Returns([b EXCEPT !.minified = r.html], fsys, c, "write")

\* lines 155-156
renderStep(fsys, c, b) ==
    LET r == renderToStaticMarkup(b.App, b.finalProps)
    IN  IF ~r.ok THEN Throws(r.err, b, fsys, c, "write")
        ELSE Returns([b EXCEPT !.minified = minify(r.html)], fsys, c, "write")

\* lines 158-162: the output path and its parent directories
ensureDirStep(fsys, c, b) ==
    IF ~IsString(b.outputRelPath) THEN Throws(TypeError, b, fsys, c, "writeFile")
    ELSE LET finalPath      == normalizeOutput(Val(b.outputRelPath))
             fullOutputPath == resolveSafePath(STORAGE.output, Str(finalPath))
         IN  IF ~fullOutputPath.ok THEN Throws(fullOutputPath.v, b, fsys, c, "writeFile")
             ELSE LET e == ensureDir(fsys, pathDirname(fullOutputPath.v))
                  IN  IF ~e.ok THEN Throws(e.err, b, e.fs, c, "writeFile")
                      ELSE Returns([b EXCEPT !.finalPath = finalPath,
                                             !.fullOutputPath = fullOutputPath.v],
                                   e.fs, c, "writeFile")

\* lines 163-165
writeFileStep(fsys, c, b) ==
    LET w == writeFile(fsys, b.fullOutputPath, b.minified)
    IN  IF ~w.ok THEN Throws(w.err, b, w.fs, c, "return") ELSE Returns(b, w.fs, c, "return")

\* afterStep, with a thrown error swallowed
afterStepSwallow(out) == out.next

\* where performBuild is after a step: at the step that follows, or out of the
\* function by the exception, which skips every remaining step
afterStep(out) == IF out.ok THEN out.next ELSE "failed"

\* history of a build: the steps it ran, and the step that threw
Track(b, step, out) ==
    [b EXCEPT !.steps = IF @ # <<>> /\ @[Len(@)] = step THEN @ ELSE Append(@, step),
              !.err = IF out.ok THEN @ ELSE out.err,
              !.failedAt = IF ~out.ok /\ @ = "" THEN step ELSE @]

\* the process p, at pc, runs the step with outcome out
BuildStep(p, pc, step, out) ==
    /\ proc[p].pc = pc
    /\ fs' = out.fs
    /\ cache' = out.cache
    /\ SetProc(p, [proc[p] EXCEPT !.pc = afterStep(out), !.b = Track(out.b, step, out)])
    /\ UNCHANGED pureVars

Invalidate(p) == BuildStep(p, "inval", "invalidate", invalidateStep(fs, cache, proc[p].b))
DataStep(p) == BuildStep(p, "data", "data", dataStep(fs, cache, proc[p].b))
LoadTemplate(p) == BuildStep(p, "template", "template", templateStep(fs, cache, proc[p].b))
Render(p) == BuildStep(p, "render", "render", renderStep(fs, cache, proc[p].b))
EnsureDir(p) == BuildStep(p, "write", "write", ensureDirStep(fs, cache, proc[p].b))
WriteFile(p) == BuildStep(p, "writeFile", "write", writeFileStep(fs, cache, proc[p].b))

(***************************************************************************)
(* POST /api/build/single, lines 168-176                                   *)
(***************************************************************************)
SingleBuild(p, templatePath, dataSources, outputName) ==
    /\ Free(p)
    /\ SetProc(p, [IdleProc EXCEPT !.pc = "inval", !.kind = "single",
                                   !.b = CallBuild(templatePath, dataSources, outputName)])
    /\ UNCHANGED <<fs, cache, pureVars>>

\* line 172
SingleRespond(p) ==
    /\ proc[p].kind = "single" /\ proc[p].pc = "return"
    /\ SetProc(p, [proc[p] EXCEPT !.pc = "responded",
                       !.resp = [NoResp EXCEPT !.status = "ok", !.path = proc[p].b.finalPath]])
    /\ UNCHANGED <<fs, cache, pureVars>>

\* lines 173-175
SingleError(p) ==
    /\ proc[p].kind = "single" /\ proc[p].pc = "failed"
    /\ SetProc(p, [proc[p] EXCEPT !.pc = "responded",
                       !.resp = [NoResp EXCEPT !.status = "error", !.error = proc[p].b.err]])
    /\ UNCHANGED <<fs, cache, pureVars>>

(***************************************************************************)
(* POST /api/build/batch, lines 178-205                                    *)
(***************************************************************************)
BatchBuild(p, templatePath, dataFolder, outputBase) ==
    /\ Free(p)
    /\ SetProc(p, [IdleProc EXCEPT !.pc = "list", !.kind = "batch",
                                   !.batchTemplate = templatePath,
                                   !.dataFolder = dataFolder, !.outputBase = outputBase])
    /\ UNCHANGED <<fs, cache, pureVars>>

\* the outer catch, lines 202-204
BatchFailed(p, msg) ==
    SetProc(p, [proc[p] EXCEPT !.pc = "responded",
                   !.resp = [NoResp EXCEPT !.status = "error", !.error = msg]])

\* files.filter(f => f.endsWith('.json'))
jsonFilter(files) == SelectSeq(files, LAMBDA f : endsWith(f, ".json"))

\* lines 182-186: resolve the folder, list it, keep the .json names
BatchList(p) ==
    LET fullDataDir == resolveSafePath(STORAGE.data, proc[p].dataFolder)
    IN  /\ proc[p].pc = "list"
        /\ IF ~fullDataDir.ok THEN BatchFailed(p, fullDataDir.v)
           ELSE IF ~exists(fs, fullDataDir.v) THEN BatchFailed(p, "ENOENT")
           ELSE IF ~isDir(fs, fullDataDir.v) THEN BatchFailed(p, "ENOTDIR")
           ELSE \E files \in Listings(entries(fs, fullDataDir.v)) :
                    SetProc(p, [proc[p] EXCEPT !.pc = "next", !.listed = TRUE,
                                              !.jsonFiles = jsonFilter(files),
                                              !.k = 1, !.results = <<>>])
        /\ UNCHANGED <<fs, cache, pureVars>>

\* line 191
itemOutputName(outputBase, file) == pathJoin(outputBase, replace(file, ".json", ""))

\* lines 188-194: the next file of the loop; path.join throws on a
\* non-string outputBase, outside the inner try
BatchNext(p) ==
    LET file == proc[p].jsonFiles[proc[p].k]
    IN  /\ proc[p].pc = "next"
        /\ proc[p].k <= Len(proc[p].jsonFiles)
        /\ IF ~IsString(proc[p].outputBase) THEN BatchFailed(p, TypeError)
           ELSE SetProc(p, [proc[p] EXCEPT
                    !.pc = "inval",
                    !.b = CallBuild(proc[p].batchTemplate,
                                    Str(<<Source(Str(pathJoin(Val(proc[p].dataFolder), file)),
                                                 Undefined)>>),
                                    Str(itemOutputName(Val(proc[p].outputBase), file)))])
        /\ UNCHANGED <<fs, cache, pureVars>>

ItemResult(file, status, path, error) ==
    [file |-> file, status |-> status, path |-> path, error |-> error]

\* line 195
BatchItemDone(p) ==
    /\ proc[p].kind = "batch" /\ proc[p].pc = "return"
    /\ SetProc(p, [proc[p] EXCEPT
           !.pc = "next", !.k = @ + 1,
           !.results = Append(@, ItemResult(proc[p].jsonFiles[proc[p].k], "success",
                                            proc[p].b.finalPath, ""))])
    /\ UNCHANGED <<fs, cache, pureVars>>

\* BatchItemError, leaving the loop at the first failed item
BatchItemErrorBreak(p) ==
    /\ proc[p].kind = "batch" /\ proc[p].pc = "failed"
    /\ SetProc(p, [proc[p] EXCEPT
           !.pc = "next", !.k = Len(proc[p].jsonFiles) + 1,
           !.results = Append(@, ItemResult(proc[p].jsonFiles[proc[p].k], "error",
                                            "", proc[p].b.err))])
    /\ UNCHANGED <<fs, cache, pureVars>>

\* BatchItemError, with the item's error failing the batch
BatchItemErrorFatal(p) ==
    /\ proc[p].kind = "batch" /\ proc[p].pc = "failed"
    /\ BatchFailed(p, proc[p].b.err)
    /\ UNCHANGED <<fs, cache, pureVars>>

\* lines 196-198
BatchItemError(p) ==
    /\ proc[p].kind = "batch" /\ proc[p].pc = "failed"
    /\ SetProc(p, [proc[p] EXCEPT
           !.pc = "next", !.k = @ + 1,
           !.results = Append(@, ItemResult(proc[p].jsonFiles[proc[p].k], "error",
                                            "", proc[p].b.err))])
    /\ UNCHANGED <<fs, cache, pureVars>>

\* line 201
BatchRespond(p) ==
    /\ proc[p].pc = "next"
    /\ proc[p].k > Len(proc[p].jsonFiles)
    /\ SetProc(p, [proc[p] EXCEPT !.pc = "responded",
                       !.resp = [NoResp EXCEPT !.status = "ok", !.results = proc[p].results]])
    /\ UNCHANGED <<fs, cache, pureVars>>

(***************************************************************************)
(* POST /api/fs/write and /api/fs/delete, lines 105-132                    *)
(***************************************************************************)
baseDirOf(type) == IF type = "data" THEN STORAGE.data ELSE STORAGE.templates

\* the file system after the write handler; a throw leaves what was done
fsWrite(fsys, type, filePath, content, isFolder) ==
    LET fullPath == resolveSafePath(baseDirOf(type), filePath)
    IN  IF ~fullPath.ok THEN fsys
        ELSE IF isFolder THEN ensureDir(fsys, fullPath.v).fs
        ELSE LET e == ensureDir(fsys, pathDirname(fullPath.v))
                 dataToWrite == IF content # "" THEN content
                                ELSE IF endsWith(Val(filePath), ".json") THEN "{}" ELSE ""
             IN  IF ~e.ok THEN fsys ELSE writeFile(e.fs, fullPath.v, dataToWrite).fs

\* a response stays in its slot until the next request arrives
Forget ==
    proc' = [p \in DOMAIN proc |-> IF proc[p].pc = "responded" THEN IdleProc ELSE proc[p]]

FsWrite(type, filePath, content, isFolder) ==
    /\ \A p \in DOMAIN proc : Free(p)
    /\ fs' = fsWrite(fs, type, filePath, content, isFolder)
    /\ Forget
    /\ UNCHANGED <<cache, pureVars>>

FsDelete(type, filePath) ==
    LET fullPath == resolveSafePath(baseDirOf(type), filePath)
    IN  /\ \A p \in DOMAIN proc : Free(p)
        /\ fs' = IF fullPath.ok THEN remove(fs, fullPath.v) ELSE fs
        /\ Forget
        /\ UNCHANGED <<cache, pureVars>>

(***************************************************************************)
(* The initial state: the storage directories of line 33, one template,    *)
(* data files, and a data folder for batches.                              *)
(***************************************************************************)
InitFiles ==
    LET dirs  == UNION {SelfAndAncestors(STORAGE[k]) : k \in DOMAIN STORAGE}
                 \cup {STORAGE.data \o "/items"}
        files == [q \in {STORAGE.templates \o "/page.js",
                         STORAGE.data \o "/hi.json",
                         STORAGE.data \o "/yo.json",
                         STORAGE.data \o "/bad.json",
                         STORAGE.data \o "/items/a.json",
                         STORAGE.data \o "/items/b.json",
                         STORAGE.data \o "/items/notes.txt"} |->
                    CASE q = STORAGE.templates \o "/page.js"   -> TplV1
                      [] q = STORAGE.data \o "/hi.json"        -> DocHi
                      [] q = STORAGE.data \o "/yo.json"        -> DocYo
                      [] q = STORAGE.data \o "/bad.json"       -> DocMalformed
                      [] q = STORAGE.data \o "/items/a.json"   -> DocHi
                      [] q = STORAGE.data \o "/items/b.json"   -> DocMalformed
                      [] OTHER                                 -> "notes"]
    IN  [q \in dirs \cup DOMAIN files |-> IF q \in dirs THEN Dir ELSE files[q]]

InitSys ==
    /\ fs = InitFiles
    /\ cache = NoFiles
    /\ proc = [p \in Procs |-> IdleProc]

Init == InitPure /\ InitSys

(***************************************************************************)
(* Specification Spec: single builds, one request at a time, with the      *)
(* template rewritten between builds.                                      *)
(***************************************************************************)
TemplateTexts == {TplV1, TplV2, TplBoth, TplApp, TplFn, TplObj, TplThrows}

SingleTemplatePaths == {Str("page.js")}
SingleDataSources ==
    {Str(<<Source(Str("yo.json"), Undefined), Source(Str("hi.json"), Undefined)>>),
     Str(<<Source(Str("bad.json"), Undefined)>>)}
SingleOutputNames == {Str("reports"), Str("reports/page.html")}

PerformBuild(p) ==
    \/ Invalidate(p)
    \/ DataStep(p)
    \/ LoadTemplate(p)
    \/ Render(p)
    \/ EnsureDir(p)
    \/ WriteFile(p)

Next ==
    \/ \E p \in Procs, t \in SingleTemplatePaths, d \in SingleDataSources,
          o \in SingleOutputNames : SingleBuild(p, t, d, o)
    \/ \E p \in Procs : PerformBuild(p)
    \/ \E p \in Procs : SingleRespond(p)
    \/ \E p \in Procs : SingleError(p)
    \/ \E text \in TemplateTexts : FsWrite("templates", Str("page.js"), text, FALSE)

Spec == Init /\ [][Next]_vars

(***************************************************************************)
(* Specification SpecBatch: batch builds, one request at a time, with the  *)
(* data folder and the template changed between batches.                   *)
(***************************************************************************)
BatchTemplatePaths == {Str("page.js"), Str("none.js")}
BatchDataFolders == {Str("items"), Str("nowhere"), Str("hi.json"), Str("../../etc"), Undefined}
BatchOutputBases == {Str("out"), Undefined}
BatchDataFiles == {"items/a.json", "items/b.json"}
BatchDataTexts == {DocHi, DocMalformed}

NextBatch ==
    \/ \E p \in Procs, t \in BatchTemplatePaths, d \in BatchDataFolders,
          o \in BatchOutputBases : BatchBuild(p, t, d, o)
    \/ \E p \in Procs : BatchList(p)
    \/ \E p \in Procs : BatchNext(p)
    \/ \E p \in Procs : PerformBuild(p)
    \/ \E p \in Procs : BatchItemDone(p)
    \/ \E p \in Procs : BatchItemError(p)
    \/ \E p \in Procs : BatchRespond(p)
    \/ \E f \in BatchDataFiles, text \in BatchDataTexts : FsWrite("data", Str(f), text, FALSE)
    \/ \E f \in BatchDataFiles : FsDelete("data", Str(f))
    \/ \E text \in {TplV1, TplObj} : FsWrite("templates", Str("page.js"), text, FALSE)

SpecBatch == Init /\ [][NextBatch]_vars

(***************************************************************************)
(* Specifications SpecPath and SpecMerge                                   *)
(***************************************************************************)
SpecPath == Init /\ [][ResolveCall]_vars

SpecMerge == Init /\ [][MergeCall]_vars

(***************************************************************************)
(* Specification SpecOutput: single builds of one template and one data    *)
(* file, over output names of every kind: relative, with "..", absolute,   *)
(* inside and outside the output root.                                     *)
(***************************************************************************)
NextOutput ==
    \/ \E p \in Procs,
          o \in {Str("reports/page.html"), Str("reports/../top"),
                 Str(STORAGE.output \o "/abs.html"), Str("/etc/abs.html"),
                 Str("../output-x/a.html"), Str("../data/x.html")} :
          SingleBuild(p, Str("page.js"), Str(<<Source(Str("hi.json"), Undefined)>>), o)
    \/ \E p \in Procs : PerformBuild(p)
    \/ \E p \in Procs : SingleRespond(p)
    \/ \E p \in Procs : SingleError(p)

SpecOutput == Init /\ [][NextOutput]_vars

(***************************************************************************)
(* Specification SpecData: single builds over lists of at most MaxSources  *)
(* data sources, with and without filename and key, naming files that are  *)
(* well-formed, malformed, missing, and outside the data root; the data    *)
(* files are rewritten between builds.                                     *)
(***************************************************************************)
DataSourceChoices ==
    {Source(Undefined, Str("title")), Source(Str(""), Undefined),
     Source(Str("hi.json"), Undefined), Source(Str("hi.json"), Str("page")),
     Source(Str("hi.json"), Str("title")), Source(Str("yo.json"), Str("")),
     Source(Str("bad.json"), Undefined), Source(Str("none.json"), Undefined),
     Source(Str("../../etc/x.json"), Undefined),
     Source(Str("../data-other/x.json"), Undefined)}

RECURSIVE SourceSeqs(_)
SourceSeqs(n) ==
    IF n = 0 THEN {<<>>}
    ELSE LET S == SourceSeqs(n - 1)
         IN  S \cup {Append(s, x) : s \in {q \in S : Len(q) = n - 1}, x \in DataSourceChoices}

NextData ==
    \/ \E p \in Procs, d \in SourceSeqs(MaxSources) :
          SingleBuild(p, Str("page.js"), Str(d), Str("o.html"))
    \/ \E p \in Procs : PerformBuild(p)
    \/ \E p \in Procs : SingleRespond(p)
    \/ \E p \in Procs : SingleError(p)
    \/ \E text \in {DocHi, DocPage} : FsWrite("data", Str("hi.json"), text, FALSE)
    \/ FsWrite("data", Str("../data-other/x.json"), DocYo, FALSE)

SpecData == Init /\ [][NextData]_vars

(***************************************************************************)
(* Specification SpecNames: batch builds over a data folder whose files    *)
(* are written between batches under names with ".json" at their end only, *)
(* inside the name too, and as the whole name.                             *)
(***************************************************************************)
NextNames ==
    \/ \E p \in Procs : BatchBuild(p, Str("page.js"), Str("names"), Str("out"))
    \/ \E p \in Procs : BatchList(p)
    \/ \E p \in Procs : BatchNext(p)
    \/ \E p \in Procs : PerformBuild(p)
    \/ \E p \in Procs : BatchItemDone(p)
    \/ \E p \in Procs : BatchItemError(p)
    \/ \E p \in Procs : BatchRespond(p)
    \/ \E f \in {"names/.json", "names/index.html.json", "names/a.jsonb.json"},
          text \in {DocHi, DocMalformed} : FsWrite("data", Str(f), text, FALSE)

SpecNames == Init /\ [][NextNames]_vars

(***************************************************************************)
(* Requests in flight together.  Node runs one handler at a time up to its *)
(* next await; the awaits of the build handlers are fs.readJson (line 146),*)
(* fs.ensureDir (162), fs.writeFile (163) and fs.readdir (183).  A request *)
(* is running when its next step needs no I/O to complete first, and no    *)
(* other request takes a step while one is running.                        *)
(***************************************************************************)
Clients == {"p1", "p2"}

Running(p) ==
    LET r == proc[p]
    IN  \/ r.pc \in {"next", "inval", "template", "render", "write", "failed"}
        \/ /\ r.pc = "data"
           /\ \/ ~IsString(r.b.dataSources)
              \/ r.b.i > Len(Val(r.b.dataSources))
              \/ Falsy(Val(r.b.dataSources)[r.b.i].filename)

\* the event loop may run a step of p
Turn(p) == \A q \in (DOMAIN proc) \ {p} : ~Running(q)

\* history: the requests in flight have seen the file at path change; a
\* response stays in its slot until the next request arrives
Touch(path) ==
    proc' = [p \in DOMAIN proc |->
                IF Free(p) THEN IdleProc
                ELSE [proc[p] EXCEPT !.touched = @ \cup {path}]]

\* POST /api/fs/write of a file while other requests are in flight
WriteDuring(type, filePath, content) ==
    /\ \A q \in DOMAIN proc : ~Running(q)
    /\ fs' = fsWrite(fs, type, filePath, content, FALSE)
    /\ Touch(pathResolve(baseDirOf(type), Val(filePath)))
    /\ UNCHANGED <<cache, pureVars>>

\* POST /api/fs/delete while other requests are in flight
DeleteDuring(type, filePath) ==
    /\ \A q \in DOMAIN proc : ~Running(q)
    /\ fs' = remove(fs, resolveSafePath(baseDirOf(type), filePath).v)
    /\ Touch(pathResolve(baseDirOf(type), Val(filePath)))
    /\ UNCHANGED <<cache, pureVars>>

InitRace ==
    /\ InitPure
    /\ fs = InitFiles
    /\ cache = NoFiles
    /\ proc = [p \in Clients |-> IdleProc]

(***************************************************************************)
(* Specification SpecRace: two clients' single builds of one template in   *)
(* flight together, the template file rewritten at any time.               *)
(***************************************************************************)
NextRace ==
    \/ \E p \in Clients, d \in {<<Source(Str("hi.json"), Undefined)>>,
                                 <<Source(Str("bad.json"), Undefined)>>} :
          Turn(p) /\ SingleBuild(p, Str("page.js"), Str(d), Str("o.html"))
    \/ \E p \in Clients : Turn(p) /\ PerformBuild(p)
    \/ \E p \in Clients : Turn(p) /\ SingleRespond(p)
    \/ \E p \in Clients : Turn(p) /\ SingleError(p)
    \/ \E text \in {TplV1, TplV2} : WriteDuring("templates", Str("page.js"), text)

SpecRace == InitRace /\ [][NextRace]_vars

(***************************************************************************)
(* Specification SpecBatchRace: a batch build over the folder items, with  *)
(* and without outputBase; once it has listed the folder, file-management  *)
(* requests delete its data files or overwrite them with malformed content *)
(* at any await; between batches the data files are written well-formed.   *)
(***************************************************************************)
\* a batch in flight has listed its data folder
AfterListing == \E p \in DOMAIN proc : proc[p].listed /\ ~Free(p)

NextBatchRace ==
    \/ \E p \in {"p1"}, o \in BatchOutputBases :
          Turn(p) /\ BatchBuild(p, Str("page.js"), Str("items"), o)
    \/ \E p \in Clients : Turn(p) /\ BatchList(p)
    \/ \E p \in Clients : Turn(p) /\ BatchNext(p)
    \/ \E p \in Clients : Turn(p) /\ PerformBuild(p)
    \/ \E p \in Clients : Turn(p) /\ BatchItemDone(p)
    \/ \E p \in Clients : Turn(p) /\ BatchItemError(p)
    \/ \E p \in Clients : Turn(p) /\ BatchRespond(p)
    \/ \E f \in BatchDataFiles : AfterListing /\ WriteDuring("data", Str(f), DocMalformed)
    \/ \E f \in BatchDataFiles : AfterListing /\ DeleteDuring("data", Str(f))
    \/ \E f \in BatchDataFiles : FsWrite("data", Str(f), DocHi, FALSE)

SpecBatchRace == InitRace /\ [][NextBatchRace]_vars

(***************************************************************************)
(*                              PROPERTIES                                 *)
(***************************************************************************)

\* containment at a path-separator boundary: the root itself or a descendant
Within(resolved, root) == resolved = root \/ startsWith(resolved, root \o "/")

\* C1: resolveSafePath returns a path only when the resolved path is the root
\* or a descendant of it at a path-separator boundary; every input resolving
\* outside the root (by "..", an absolute path, or a sibling directory whose
\* name starts with the root's name) fails with the security violation, and
\* every input staying within the root succeeds with the resolved path.
C1_BoundaryContainment ==
    (sandbox.st = "done" /\ IsString(sandbox.input)) =>
        LET root     == pathResolve(sandbox.base, "")
            resolved == pathResolve(root, Val(sandbox.input))
        IN  IF Within(resolved, root)
            THEN sandbox.res = Ok(resolved)
            ELSE sandbox.res = Throw(SecurityViolation)

\* the deep merge the claim describes: right-biased, plain mappings merged
\* key by key, anything else (arrays, scalars) replaced by the later value
RECURSIVE rightBiased(_, _)
rightBiased(a, b) ==
    IF a.t = "obj" /\ b.t = "obj"
    THEN JObj([k \in (DOMAIN a.p) \cup (DOMAIN b.p) |->
                 IF k \notin DOMAIN b.p THEN a.p[k]
                 ELSE IF k \notin DOMAIN a.p THEN b.p[k]
                 ELSE rightBiased(a.p[k], b.p[k])])
    ELSE b

RECURSIVE rightBiasedFold(_, _)
rightBiasedFold(acc, contents) ==
    IF contents = <<>> THEN acc
    ELSE rightBiasedFold(rightBiased(acc, Head(contents)), Tail(contents))

\* C2: the properties performBuild builds are the in-order fold of the data
\* sources under a right-biased deep merge in which nested plain mappings are
\* merged key-wise and arrays and scalars are replaced wholesale by the later
\* source's value ({a:[1,2]} then {a:[3]} gives {a:[3]}).
C2_RightBiasedReplace ==
    merged.st = "done" => merged.props = rightBiasedFold(EmptyObj, merged.contents)

(***************************************************************************)
(* Single builds (specification Spec)                                      *)
(***************************************************************************)
BuildPcs == {"inval", "data", "template", "render", "write", "writeFile", "return", "failed"}

\* the single build of p has responded / responded with success and a path
SingleDone(p) == proc[p].kind = "single" /\ proc[p].pc = "responded"
SingleOk(p) == SingleDone(p) /\ proc[p].resp.status = "ok"

\* the build of p has loaded its template and not failed since
Loaded(p) ==
    \/ proc[p].pc \in {"render", "write", "writeFile", "return"}
    \/ SingleOk(p)

\* the file the response's path names under the output root
ReportedFile(p) == pathResolve(STORAGE.output, proc[p].resp.path)

PageJs == STORAGE.templates \o "/page.js"

\* C4: hot reload.  A build run after the template file was overwritten
\* uses the file's new content: the module a build renders is the one the
\* template file holds now, never one cached by an earlier build, and the
\* output of a build of V2 (after a build of V1) reflects V2.
C4_HotReload ==
    \A p \in Procs :
        /\ Loaded(p) => proc[p].b.Component = fs[proc[p].b.fullTemplatePath]
        /\ (SingleOk(p) /\ fs[PageJs] = TplV2) => fs[ReportedFile(p)] = "<p>Hi</p>"
        /\ (SingleOk(p) /\ fs[PageJs] = TplV1) => fs[ReportedFile(p)] = "<div>Hi</div>"

\* a build of V2 that answered with success, its template having been built
\* (and cached) as V1 before and then overwritten
C4_Witness ==
    \E p \in Procs :
        /\ SingleOk(p)
        /\ proc[p].b.prev = TplV1
        /\ fs[PageJs] = TplV2
        /\ proc[p].b.Component = TplV2
        /\ fs[ReportedFile(p)] = "<p>Hi</p>"

StepOrder == <<"invalidate", "data", "template", "render", "write">>

IsPrefix(s, t) == Len(s) <= Len(t) /\ SubSeq(t, 1, Len(s)) = s

\* the files and directories under the output root
OutputTree(fsys) == [q \in {x \in DOMAIN fsys : Within(x, STORAGE.output)} |-> fsys[q]]

\* the steps run so far are an initial part of the fixed order, and once a
\* step has thrown no later step runs and the build answers with that error
StepsInOrder(p) ==
    LET b == proc[p].b
    IN  /\ IsPrefix(b.steps, StepOrder)
        /\ b.failedAt # "" =>
              /\ b.steps[Len(b.steps)] = b.failedAt
              /\ proc[p].pc \in {"failed", "responded"}
              /\ proc[p].pc = "responded" =>
                    proc[p].resp = [NoResp EXCEPT !.status = "error", !.error = b.err]

\* a build that has not reached its write step, or failed before it, leaves
\* the output root as it is
OutputUntouched(p) ==
    (\/ proc[p].pc \in {"inval", "data", "template", "render"}
     \/ proc[p].pc = "failed" /\ proc[p].b.failedAt \in {"data", "template", "render"})
        => OutputTree(fs') = OutputTree(fs)

\* C5: performBuild runs invalidate, data, template, render, write in this
\* order; the first step that fails aborts the remaining steps and is the one
\* error of the build; a build failing in the data, template or render step
\* creates or changes no file under the output root.
C5_OrderedAbort ==
    /\ [](\A p \in Procs : StepsInOrder(p))
    /\ [][\A p \in Procs : OutputUntouched(p)]_vars

\* a build that ran four steps, failed in rendering and answered with the error
C5_Witness ==
    \E p \in Procs :
        /\ SingleDone(p)
        /\ proc[p].b.failedAt = "render"
        /\ proc[p].b.steps = SubSeq(StepOrder, 1, 4)
        /\ proc[p].resp.status = "error"

\* the properties of the request's data sources, read from fsys in order
RECURSIVE propsOf(_, _, _)
propsOf(fsys, srcs, acc) ==
    IF srcs = <<>> THEN acc
    ELSE propsOf(fsys, Tail(srcs), dataSource(fsys, Head(srcs), acc).props)

\* the minified markup of the request's template export and merged properties
Artifact(p) ==
    LET b     == proc[p].b
        App   == resolveExport(fs[pathResolve(STORAGE.templates, Val(b.templatePath))])
        props == propsOf(fs, Val(b.dataSources), EmptyObj)
    IN  minify(renderToStaticMarkup(App, props).html)

\* C6: when a single build answers with success and a path, the file at
\* that path under the output root exists and holds the minified static
\* markup of the resolved template export rendered with the merged
\* properties (a template rendering props.title in a div, with {title: Hi},
\* gives <div>Hi</div>; no extraneous whitespace is left).
C6_ArtifactWritten ==
    \A p \in Procs :
        SingleOk(p) =>
            /\ isFile(fs, ReportedFile(p))
            /\ fs[ReportedFile(p)] = Artifact(p)
            /\ indexOf(fs[ReportedFile(p)], " ") = 0
            /\ fs[PageJs] = TplFn => fs[ReportedFile(p)] = "<div>Hi</div>"

\* a successful build of the whitespace-padded paragraph template
C6_Witness ==
    \E p \in Procs :
        /\ SingleOk(p)
        /\ proc[p].b.App = "Para"
        /\ proc[p].b.finalProps = Key1("title", JStr("Hi"))
        /\ proc[p].resp.path = "reports/page.html"
        /\ isFile(fs, STORAGE.output \o "/reports/page.html")
        /\ fs[STORAGE.output \o "/reports/page.html"] = "<p>Hi</p>"

\* C7: an output name not ending in .html is written to and reported as the
\* name joined with index.html; a name ending in .html is written to and
\* reported unchanged; the reported path is the path written.
C7_OutputNormalized ==
    \A p \in Procs :
        SingleOk(p) =>
            LET name == Val(proc[p].b.outputRelPath)
                path == proc[p].resp.path
            IN  /\ path = IF endsWith(name, ".html") THEN name
                          ELSE pathJoin(name, "index.html")
                /\ name = "reports" => path = "reports/index.html"
                /\ name = "reports/page.html" => path = "reports/page.html"
                /\ proc[p].b.fullOutputPath = ReportedFile(p)
                /\ isFile(fs, ReportedFile(p))

\* a directory target written as reports/index.html
C7_Witness ==
    \E p \in Procs :
        /\ SingleOk(p)
        /\ proc[p].b.outputRelPath = Str("reports")
        /\ proc[p].resp.path = "reports/index.html"
        /\ isFile(fs, STORAGE.output \o "/reports/index.html")

\* C8: the component rendered is the module's default export when it has
\* one (also beside a named App export), else its App export when it has
\* one, else the module value itself.
C8_ExportPriority ==
    \A p \in Procs :
        Loaded(p) =>
            LET m == loadModule(proc[p].b.Component)
            IN  /\ m.default # NoExport => proc[p].b.App = m.default
                /\ (m.default = NoExport /\ m.App # NoExport) => proc[p].b.App = m.App
                /\ (m.default = NoExport /\ m.App = NoExport) => proc[p].b.App = m.self
                /\ (SingleOk(p) /\ proc[p].b.Component = TplBoth)
                      => fs[ReportedFile(p)] = "<div>Hi</div>"
                /\ (SingleOk(p) /\ proc[p].b.Component = TplApp)
                      => fs[ReportedFile(p)] = "<p>Hi</p>"

\* a module with a default and an App export, built with its default export
C8_Witness ==
    \E p \in Procs :
        /\ SingleOk(p)
        /\ proc[p].b.Component = TplBoth
        /\ proc[p].b.App = "Div"
        /\ fs[ReportedFile(p)] = "<div>Hi</div>"

(***************************************************************************)
(* Batch builds (specification SpecBatch)                                  *)
(***************************************************************************)
BatchDone(p) == proc[p].kind = "batch" /\ proc[p].pc = "responded"

\* the data file of the batch of p named file
ItemFile(p, file) == pathResolve(STORAGE.data, pathJoin(Val(proc[p].dataFolder), file))

\* the listed .json files that are malformed
Malformed(p) ==
    {i \in 1..Len(proc[p].jsonFiles) : ~readJson(fs, ItemFile(p, proc[p].jsonFiles[i])).ok}

WithStatus(results, status) == {i \in 1..Len(results) : results[i].status = status}

\* the batch's template is one that loads and renders
TemplateWorks(p) == proc[p].batchTemplate = Str("page.js") /\ fs[PageJs] = TplV1

\* C3: a batch over a data folder that can be resolved and listed, with N
\* .json files of which M are malformed, does not fail and returns exactly N
\* results, M of them errors and N - M successes.  Stated for a template
\* that loads and renders, so that only malformed files make items fail.
C3_BatchIsolation ==
    \A p \in Procs :
        (BatchDone(p) /\ proc[p].listed /\ TemplateWorks(p)) =>
            LET N == Len(proc[p].jsonFiles)
                M == Cardinality(Malformed(p))
                r == proc[p].resp
            IN  /\ r.status = "ok"
                /\ Len(r.results) = N
                /\ Cardinality(WithStatus(r.results, "error")) = M
                /\ Cardinality(WithStatus(r.results, "success")) = N - M

\* C9: a batch builds its items one at a time in listing order: while item k
\* is being built exactly the k - 1 items before it have been reported, the
\* i-th result is that of the i-th listed .json file, and a batch that
\* answers has built and reported every item, failed ones included.
C9_OneAtATimeInOrder ==
    \A p \in Procs :
        (proc[p].kind = "batch" /\ proc[p].listed) =>
            LET files   == proc[p].jsonFiles
                results == proc[p].results
                k       == proc[p].k
            IN  /\ \A i \in 1..Len(results) :
                      /\ i <= Len(files)
                      /\ results[i].file = files[i]
                      /\ results[i].status \in {"success", "error"}
                /\ proc[p].pc \in BuildPcs \cup {"next"} => Len(results) = k - 1
                /\ proc[p].pc \in BuildPcs =>
                      /\ k <= Len(files)
                      /\ proc[p].b.dataSources =
                            Str(<<Source(Str(pathJoin(Val(proc[p].dataFolder), files[k])),
                                         Undefined)>>)
                /\ (BatchDone(p) /\ proc[p].resp.status = "ok") =>
                      /\ proc[p].resp.results = results
                      /\ Len(results) = Len(files)

\* a batch whose first item failed and whose second item was built after it
C9_Witness ==
    \E p \in Procs :
        /\ BatchDone(p)
        /\ proc[p].resp.status = "ok"
        /\ Len(proc[p].resp.results) = 2
        /\ proc[p].resp.results[1].status = "error"
        /\ proc[p].resp.results[2].status = "success"

\* C10: a batch call fails as a whole only if its data folder cannot be
\* sandbox-resolved or listed; whatever templatePath and outputBase are, any
\* other failure is recorded as an item result.
C10_OnlySetupFails ==
    \A p \in Procs :
        (BatchDone(p) /\ proc[p].resp.status = "error") => ~proc[p].listed

(***************************************************************************)
(* Output names of every kind (specification SpecOutput)                   *)
(***************************************************************************)
IsAbsolute(path) == startsWith(path, "/")

\* C11: the path a successful build returns is relative to the output root
\* and names the artifact written; an absolute path is never echoed back,
\* whatever output name the caller supplied.
C11_RelativeResult ==
    \A p \in Procs :
        SingleOk(p) =>
            /\ ~IsAbsolute(proc[p].resp.path)
            /\ isFile(fs, ReportedFile(p))
            /\ ReportedFile(p) = proc[p].b.fullOutputPath

(***************************************************************************)
(* Data sources (specification SpecData)                                   *)
(***************************************************************************)
\* what one data source contributes as the claim has it: nothing without a
\* filename; a failure for a file outside the data root, missing or
\* malformed; content[key], or nothing when the key is absent, with a key;
\* the whole content without one
Contribution(fsys, src, acc) ==
    IF Falsy(src.filename) THEN PropsOk(acc)
    ELSE LET file    == pathResolve(STORAGE.data, Val(src.filename))
             content == readJson(fsys, file)
         IN  IF ~Within(file, STORAGE.data) \/ ~content.ok THEN PropsErr("")
             ELSE IF Falsy(src.key) THEN PropsOk(merge(acc, content.val))
             ELSE IF Val(src.key) \in DOMAIN content.val.p
                  THEN PropsOk(merge(acc, content.val.p[Val(src.key)]))
                  ELSE PropsOk(acc)

\* the contributions of the first n sources folded in order: the accumulator,
\* or the index of the first source that fails
RECURSIVE Contributions(_, _, _)
Contributions(fsys, srcs, n) ==
    IF n = 0 THEN [failed |-> 0, props |-> EmptyObj]
    ELSE LET before == Contributions(fsys, srcs, n - 1)
             this   == Contribution(fsys, srcs[n], before.props)
         IN  IF before.failed # 0 THEN before
             ELSE IF ~this.ok THEN [failed |-> n, props |-> before.props]
             ELSE [failed |-> 0, props |-> this.props]

\* the build of p so far agrees with the contributions of its sources
SourcesFolded(p) ==
    LET b    == proc[p].b
        srcs == Val(b.dataSources)
        done == IF proc[p].pc = "inval" THEN 0
                ELSE IF proc[p].pc = "data" THEN b.i - 1
                ELSE IF b.failedAt = "data" THEN b.i
                ELSE Len(srcs)
        c    == Contributions(fs, srcs, done)
    IN  IF b.failedAt = "data" THEN c.failed = b.i
        ELSE c.failed = 0 /\ b.finalProps = c.props

\* C12: each data source of a build, in listed order: an entry with no
\* filename contributes nothing; an entry with a key contributes content[key]
\* of the parsed file, or nothing when the key is absent; an entry without a
\* key contributes the whole parsed content; a file that is missing,
\* malformed or outside the data root fails the build.
C12_DataSources ==
    \A p \in Procs : (proc[p].kind = "single" /\ proc[p].pc # "idle") => SourcesFolded(p)

(***************************************************************************)
(* File names of a batch (specification SpecNames)                         *)
(***************************************************************************)
\* a file name without its trailing .json extension
BaseName(file) == SubSeq(file, 1, Len(file) - Len(".json"))

\* C13: for every .json file of a batch the build is invoked with exactly
\* one data source, that file inside the data folder with no key, and with
\* the output path outputBase joined with the file's name without its
\* trailing .json extension, the rest of the name kept as it is.
C13_ItemArguments ==
    \A p \in Procs :
        (proc[p].kind = "batch" /\ proc[p].pc \in BuildPcs) =>
            LET file == proc[p].jsonFiles[proc[p].k]
            IN  /\ endsWith(file, ".json")
                /\ proc[p].b.templatePath = proc[p].batchTemplate
                /\ proc[p].b.dataSources =
                      Str(<<Source(Str(pathJoin(Val(proc[p].dataFolder), file)), Undefined)>>)
                /\ proc[p].b.outputRelPath =
                      Str(pathJoin(Val(proc[p].outputBase), BaseName(file)))

\* C14: within one batch two different .json files never get the same
\* output path: no successful item overwrites the artifact of another, and
\* the distinct artifacts written are as many as the successful items.
C14_OneArtifactPerFile ==
    \A p \in Procs :
        (BatchDone(p) /\ proc[p].resp.status = "ok") =>
            LET results == proc[p].resp.results
                ok      == WithStatus(results, "success")
            IN  /\ \A i, j \in ok : i # j => results[i].path # results[j].path
                /\ Cardinality({pathResolve(STORAGE.output, results[i].path) : i \in ok})
                      = Cardinality(ok)

(***************************************************************************)
(* Builds in flight together (specification SpecRace)                      *)
(***************************************************************************)
\* the request of p arrived after the last write of the template file
AfterLastWrite(p) == PageJs \notin proc[p].touched

\* C15: hot reload with several builds in flight, interleaving at their
\* awaits: a build that started after the last write of the template file
\* never renders the template's earlier content, whatever other builds do to
\* the module cache between its cache invalidation and its template load:
\* the module it loads and the markup it renders are those of the file.
C15_HotReloadInFlight ==
    \A p \in Clients :
        (proc[p].kind = "single" /\ Loaded(p) /\ AfterLastWrite(p)) =>
            /\ proc[p].b.Component = fs[PageJs]
            /\ proc[p].pc \notin {"render"} =>
                  proc[p].b.minified =
                      minify(renderToStaticMarkup(resolveExport(fs[PageJs]),
                                                  proc[p].b.finalProps).html)

\* two builds in flight, both started after the template was rewritten to V2
\* and past their template load, one of them called with V1 still cached
C15_Witness ==
    /\ fs[PageJs] = TplV2
    /\ \A p \in Clients :
          /\ proc[p].kind = "single"
          /\ proc[p].pc \in {"writeFile", "return"}
          /\ AfterLastWrite(p)
          /\ proc[p].b.Component = TplV2
          /\ proc[p].b.minified = "<p>Hi</p>"
    /\ \E p \in Clients : proc[p].b.prev = TplV1

(***************************************************************************)
(* A batch and file management in flight together (SpecBatchRace)          *)
(***************************************************************************)
\* the batch of p has reported one result per listed .json file, in order,
\* an error for every item whose build failed
AllItemsReported(p) ==
    /\ proc[p].resp.status = "ok"
    /\ proc[p].resp.results = proc[p].results
    /\ Len(proc[p].results) = Len(proc[p].jsonFiles)

\* a .json file the batch of p listed was deleted or overwritten since
Affected(p) ==
    {i \in 1..Len(proc[p].jsonFiles) : ItemFile(p, proc[p].jsonFiles[i]) \in proc[p].touched}

\* C16: when a data file listed by a batch is deleted or overwritten with
\* malformed content by a concurrent request after the listing and before
\* the item is built, the batch still returns one result per listed .json
\* file: the build of the affected item does not get past reading its data
\* and is recorded as an error, the batch call does not fail, and the other
\* items are built and reported as usual.
C16_ListedItemsSurvive ==
    \A p \in Clients :
        (proc[p].kind = "batch" /\ proc[p].listed /\ Affected(p) # {}) =>
            LET files   == proc[p].jsonFiles
                results == proc[p].results
                k       == proc[p].k
            IN  /\ \A i \in 1..Len(results) : i <= Len(files) /\ results[i].file = files[i]
                /\ proc[p].pc \in {"template", "render", "write"} => k \notin Affected(p)
                /\ (proc[p].pc = "next" /\ k > 1) =>
                      (results[k - 1].status = "error" <=> proc[p].b.failedAt # "")
                /\ BatchDone(p) => AllItemsReported(p)

\* a batch that answered with both results after its first file was deleted
\* under it: an error for that item, a success for the other
C16_Witness ==
    \E p \in Clients :
        /\ BatchDone(p)
        /\ AllItemsReported(p)
        /\ Len(proc[p].results) = 2
        /\ Affected(p) = {1}
        /\ ~exists(fs, ItemFile(p, proc[p].jsonFiles[1]))
        /\ proc[p].results[1].status = "error"
        /\ proc[p].results[1].error = "ENOENT"
        /\ proc[p].results[2].status = "success"

(***************************************************************************)
(* What builds leave behind (specification SpecOutput)                     *)
(***************************************************************************)
\* the files and directories that were not there initially
Created == (DOMAIN fs) \ (DOMAIN InitFiles)

\* C17: a build only reads from the data and template roots and only writes
\* under the output root: after any sequence of builds, successful or
\* failed, every file under the template root and the data root is as it
\* was, whatever was created lies under the output root, and each
\* successful build has written its one file there.
C17_BuildFootprint ==
    /\ \A q \in DOMAIN InitFiles : exists(fs, q) /\ fs[q] = InitFiles[q]
    /\ \A q \in Created : Within(q, STORAGE.output)
    /\ \A p \in Procs :
          SingleOk(p) =>
              /\ Within(proc[p].b.fullOutputPath, STORAGE.output)
              /\ isFile(fs, proc[p].b.fullOutputPath)
              /\ fs[proc[p].b.fullOutputPath] = proc[p].b.minified

====
